---- MODULE Spec2Model ----
(***************************************************************************)
(* Sprint calendar: the sprint period calculator (src/lib/sprint-calc.ts)  *)
(* and the date utilities it rests on (src/lib/date-utils.ts).             *)
(*                                                                         *)
(* A Date is its time value: an integer count of ticks since 1970-01-01    *)
(* 00:00 local time, TicksPerDay ticks to the day (the runtime counts      *)
(* milliseconds; the calculator never looks below the day, so a day is     *)
(* cut into a few ticks only).  Local time has a fixed offset (no          *)
(* daylight-saving jumps), so that a calendar day is TicksPerDay ticks.    *)
(***************************************************************************)
EXTENDS Integers, Sequences, FiniteSets

VARIABLES
  op,             \* the operation that ran last
  startDate,      \* its start-date argument
  devDays,        \* its devDays argument
  qaDays,         \* its qaDays argument
  count,          \* its count argument
  period,         \* the SprintPeriod calculateSprintPeriods returned
  sprintPeriods,  \* the SprintPeriod[] the caller holds
  date,           \* the probe date given to getAllPeriodsForDate
  results,        \* the PeriodInfo[] getAllPeriodsForDate returned
  periodType,     \* the PeriodType getPeriodTypeForDate returned
  targetDay,      \* the dayOfWeek argument of getNearestDayOfWeek
  wantFuture,     \* the future argument of getNearestDayOfWeek
  nearest,        \* the Date getNearestDayOfWeek returned
  now,            \* the clock: what new Date() gives
  query,          \* url.searchParams: parameter name -> text, or Null
  config,         \* the CalendarConfig parseUrlParams returned
  calendarMonths, \* the CalendarMonth[] generateCalendarMonths returned
  answer          \* what a date-utils month function returned

\* the state of the page: the clock, the URL, the configuration and the
\* calendar, and the last answer of a month function
appVars == <<now, query, config, calendarMonths, answer>>

vars == <<op, startDate, devDays, qaDays, count, period, sprintPeriods, date, results,
          periodType, targetDay, wantFuture, nearest, now, query, config, calendarMonths,
          answer>>

(***************************************************************************)
(* Bounds of the exploration.                                              *)
(***************************************************************************)
TicksPerDay == 2        \* time-of-day resolution of a Date
MaxStartOffset == 6     \* start dates: FirstDay .. FirstDay + MaxStartOffset
MaxDevDays == 7         \* devDays in 1 .. MaxDevDays
MaxQaDays == 7          \* qaDays in 1 .. MaxQaDays
MaxCount == 4           \* count in 1 .. MaxCount
MaxRanges == 4          \* longest hand-built list of ranges

(***************************************************************************)
(* The runtime's Date, as far as the program uses it.                      *)
(***************************************************************************)
DayOf(t) == t \div TicksPerDay

TimeOfDay(t) == t % TicksPerDay

\* civil date <<year, month 1..12, day of month>> of a day number
CivilFromDays(n) ==
  LET z   == n + 719468
      era == z \div 146097
      doe == z - era * 146097
      yoe == (doe - doe \div 1460 + doe \div 36524 - doe \div 146096) \div 365
      doy == doe - (365 * yoe + yoe \div 4 - yoe \div 100)
      mp  == (5 * doy + 2) \div 153
      d   == doy - (153 * mp + 2) \div 5 + 1
      m   == IF mp < 10 THEN mp + 3 ELSE mp - 9
      y   == yoe + era * 400 + (IF m <= 2 THEN 1 ELSE 0)
  IN  <<y, m, d>>

\* day number of a civil date
DaysFromCivil(y, m, d) ==
  LET yy  == IF m <= 2 THEN y - 1 ELSE y
      era == yy \div 400
      yoe == yy - era * 400
      doy == (153 * (IF m > 2 THEN m - 3 ELSE m + 9) + 2) \div 5 + d - 1
      doe == yoe * 365 + yoe \div 4 - yoe \div 100 + doy
  IN  era * 146097 + doe - 719468

\* the day of the README's worked example, 2025-02-25 (a Tuesday)
FirstDay == DaysFromCivil(2025, 2, 25)

getTime(t) == t

getFullYear(t) == CivilFromDays(DayOf(t))[1]

getMonth(t) == CivilFromDays(DayOf(t))[2] - 1      \* 0..11

getDate(t) == CivilFromDays(DayOf(t))[3]

getDay(t) == (DayOf(t) + 4) % 7                    \* 1970-01-01 was a Thursday

\* date.setDate(dayOfMonth): the day of month may lie outside the month and
\* then rolls into the neighbouring months; the time of day is kept
setDate(t, dayOfMonth) ==
  (DaysFromCivil(getFullYear(t), getMonth(t) + 1, 1) + dayOfMonth - 1) * TicksPerDay
    + TimeOfDay(t)

\* mutant: the time of day is left in place
setHoursZero_Kept(t) == t

\* date.setMonth(month): the day of the month and the time of day are kept,
\* and a day the new month does not have rolls into the month after it
setMonth(t, month) ==
  (DaysFromCivil(getFullYear(t) + (month \div 12), (month % 12) + 1, 1) + getDate(t) - 1)
    * TicksPerDay + TimeOfDay(t)

\* a % b of the runtime: the remainder has the sign of a
Remainder(a, b) == IF a >= 0 THEN a % b ELSE -((-a) % b)

\* date.setHours(0, 0, 0, 0)
setHoursZero(t) == DayOf(t) * TicksPerDay

\* new Date(year, month, day) at midnight: a month outside 0..11 and a day
\* outside the month roll into the neighbouring years and months, and a year
\* 0..99 is a year of the 1900s
newDate(y, month, d) ==
  LET fullYear == IF y >= 0 /\ y <= 99 THEN 1900 + y ELSE y
  IN  (DaysFromCivil(fullYear + (month \div 12), (month % 12) + 1, 1) + d - 1) * TicksPerDay

(***************************************************************************)
(* The runtime's numbers and strings.  A number is NaN or an integer; a    *)
(* string is the sequence of its characters.                               *)
(***************************************************************************)
NaN == [isNaN |-> TRUE, value |-> 0]

Num(v) == [isNaN |-> FALSE, value |-> v]

Digits == {"0", "1", "2", "3", "4", "5", "6", "7", "8", "9"}

DigitValue(c) ==
  CASE c = "0" -> 0 [] c = "1" -> 1 [] c = "2" -> 2 [] c = "3" -> 3 [] c = "4" -> 4
    [] c = "5" -> 5 [] c = "6" -> 6 [] c = "7" -> 7 [] c = "8" -> 8 [] c = "9" -> 9

\* the text without its leading white space
RECURSIVE TrimStart(_)
TrimStart(text) ==
  IF text /= <<>> /\ Head(text) = " " THEN TrimStart(Tail(text)) ELSE text

\* the number of digits the text starts with
RECURSIVE DigitPrefixLen(_)
DigitPrefixLen(text) ==
  IF text = <<>> \/ Head(text) \notin Digits THEN 0 ELSE 1 + DigitPrefixLen(Tail(text))

\* the value of a sequence of decimal digits
RECURSIVE DecimalValue(_)
DecimalValue(digits) ==
  IF digits = <<>>
    THEN 0
    ELSE 10 * DecimalValue(SubSeq(digits, 1, Len(digits) - 1)) + DigitValue(digits[Len(digits)])

HasSign(text) == text /= <<>> /\ Head(text) \in {"+", "-"}

SignOf(text) == IF text /= <<>> /\ Head(text) = "-" THEN -1 ELSE 1

Unsigned(text) == IF HasSign(text) THEN Tail(text) ELSE text

\* Number.parseInt(text, 10): white space, a sign, then the digits up to the
\* first other character; NaN when there is no digit
parseInt(text) ==
  LET body == Unsigned(TrimStart(text))
      n == DigitPrefixLen(body)
  IN  IF n = 0 THEN NaN ELSE Num(SignOf(TrimStart(text)) * DecimalValue(SubSeq(body, 1, n)))

\* Number(text) for a text of digits, signs, spaces and letters: the empty
\* text is 0, a signed run of digits is its value, anything else is NaN
Number(text) ==
  LET trimmed == TrimStart(text)
      body == Unsigned(trimmed)
  IN  IF trimmed = <<>> THEN Num(0)
      ELSE IF body /= <<>> /\ DigitPrefixLen(body) = Len(body)
        THEN Num(SignOf(trimmed) * DecimalValue(body))
        ELSE NaN

\* the index of the first "-" of the text, 0 when it has none
FirstDash(text) ==
  IF \E i \in DOMAIN text : text[i] = "-"
    THEN CHOOSE i \in DOMAIN text : text[i] = "-" /\ \A j \in 1..(i - 1) : text[j] /= "-"
    ELSE 0

\* text.split('-')
RECURSIVE Split(_)
Split(text) ==
  IF FirstDash(text) = 0
    THEN <<text>>
    ELSE <<SubSeq(text, 1, FirstDash(text) - 1)>>
           \o Split(SubSeq(text, FirstDash(text) + 1, Len(text)))

(***************************************************************************)
(* date-utils.ts                                                           *)
(***************************************************************************)
addDays(d, days) ==
  LET result == d
  IN  setDate(result, getDate(result) + days)

isSameDay(date1, date2) ==
  /\ getFullYear(date1) = getFullYear(date2)
  /\ getMonth(date1) = getMonth(date2)
  /\ getDate(date1) = getDate(date2)

getDayOfWeek(d) == getDay(d)

\* isToday(date), with the clock at now
isToday(d) == isSameDay(d, now)

getFirstDayOfMonth(d) ==
  LET result == d
  IN  setDate(result, 1)

getLastDayOfMonth(d) ==
  LET result == d
  IN  setDate(setMonth(result, getMonth(result) + 1), 0)

getDaysInMonth(d) == getDate(getLastDayOfMonth(d))

createDate(year, month) == newDate(year, month, 1)

\* parseDate(dateString): the time value of new Date(year, month - 1, day),
\* NaN (an Invalid Date) when a part is missing or is not a number
parseDate(dateString) ==
  LET parts == Split(dateString)
      year == Number(parts[1])
      month == IF Len(parts) >= 2 THEN Number(parts[2]) ELSE NaN
      day == IF Len(parts) >= 3 THEN Number(parts[3]) ELSE NaN
  IN  IF year.isNaN \/ month.isNaN \/ day.isNaN
        THEN NaN
        ELSE Num(newDate(year.value, month.value - 1, day.value))

(***************************************************************************)
(* sprint-calc.ts                                                          *)
(***************************************************************************)
\* mutant: the offset to the target weekday taken the wrong way round
getNearestDayOfWeek_Swapped(dayOfWeek, baseDate, future) ==
  LET result == baseDate
      currentDayOfWeek == getDayOfWeek(result)
  IN  IF currentDayOfWeek = dayOfWeek /\ ~future
        THEN result
        ELSE addDays(result, ((currentDayOfWeek + 7 - dayOfWeek) % 7) + 1)

\* mutant: the past branch does not take the week off
getNearestDayOfWeek_NeverBack(dayOfWeek, baseDate, future) ==
  LET result == baseDate
      currentDayOfWeek == getDayOfWeek(result)
      forward == (dayOfWeek + 7 - currentDayOfWeek) % 7
      backward == (dayOfWeek - currentDayOfWeek + 7) % 7
      daysToAdd == IF future
                     THEN (IF forward = 0 THEN 7 ELSE forward)
                     ELSE backward
  IN  IF currentDayOfWeek = dayOfWeek /\ ~future
        THEN result
        ELSE addDays(result, daysToAdd)

\* mutant: the past branch goes back by the forward offset
getNearestDayOfWeek_Negated(dayOfWeek, baseDate, future) ==
  LET result == baseDate
      currentDayOfWeek == getDayOfWeek(result)
      forward == (dayOfWeek + 7 - currentDayOfWeek) % 7
      backward == (dayOfWeek - currentDayOfWeek + 7) % 7
      daysToAdd == IF future
                     THEN (IF forward = 0 THEN 7 ELSE forward)
                     ELSE -backward
  IN  IF currentDayOfWeek = dayOfWeek /\ ~future
        THEN result
        ELSE addDays(result, daysToAdd)

\* mutant: the future branch does not skip a base date on the target weekday
getNearestDayOfWeek_NoSkip(dayOfWeek, baseDate, future) ==
  LET result == baseDate
      currentDayOfWeek == getDayOfWeek(result)
      forward == (dayOfWeek + 7 - currentDayOfWeek) % 7
      backward == (dayOfWeek - currentDayOfWeek + 7) % 7
      daysToAdd == IF future
                     THEN forward
                     ELSE (IF backward = 0 THEN 0 ELSE backward - 7)
  IN  IF currentDayOfWeek = dayOfWeek /\ ~future
        THEN result
        ELSE addDays(result, daysToAdd)

getNearestDayOfWeek(dayOfWeek, baseDate, future) ==
  LET result == baseDate
      currentDayOfWeek == getDayOfWeek(result)
      forward == (dayOfWeek + 7 - currentDayOfWeek) % 7
      backward == (dayOfWeek - currentDayOfWeek + 7) % 7
      daysToAdd == IF future
                     THEN (IF forward = 0 THEN 7 ELSE forward)
                     ELSE (IF backward = 0 THEN 0 ELSE backward - 7)
  IN  IF currentDayOfWeek = dayOfWeek /\ ~future
        THEN result
        ELSE addDays(result, daysToAdd)

\* `Sprint-${getFullYear()}/${getMonth() + 1}/${getDate()}` of a release date
SprintId(releaseDate) ==
  <<getFullYear(releaseDate), getMonth(releaseDate) + 1, getDate(releaseDate)>>

NoSprintId == <<>>     \* sprintId is optional and not set by calculateSprintPeriods

\* mutant: the QA window starts on the last development day
calculateSprintPeriods_QaOverlap(start, dev, qa) ==
  LET developmentEnd == addDays(start, dev - 1)
      qaStart == developmentEnd
      qaEnd == addDays(qaStart, qa - 1)
      startDayOfWeek == getDayOfWeek(start)
      releaseDate == IF getDayOfWeek(qaEnd) = startDayOfWeek
                       THEN qaEnd
                       ELSE getNearestDayOfWeek(startDayOfWeek, addDays(qaEnd, 1), TRUE)
  IN  [developmentStart |-> start, developmentEnd |-> developmentEnd,
       qaStart |-> qaStart, qaEnd |-> qaEnd, releaseDate |-> releaseDate,
       nextSprintStart |-> addDays(start, dev \div 2), sprintId |-> NoSprintId]

calculateSprintPeriods(start, dev, qa) ==
  LET developmentEnd == addDays(start, dev - 1)
      qaStart == addDays(developmentEnd, 1)
      qaEnd == addDays(qaStart, qa - 1)
      startDayOfWeek == getDayOfWeek(start)
      releaseDate == IF getDayOfWeek(qaEnd) = startDayOfWeek
                       THEN qaEnd
                       ELSE LET dayAfterQaEnd == addDays(qaEnd, 1)
                            IN  getNearestDayOfWeek(startDayOfWeek, dayAfterQaEnd, TRUE)
      nextSprintStartOffset == dev \div 2
      nextSprintStart == addDays(start, nextSprintStartOffset)
  IN  [developmentStart |-> start, developmentEnd |-> developmentEnd,
       qaStart |-> qaStart, qaEnd |-> qaEnd, releaseDate |-> releaseDate,
       nextSprintStart |-> nextSprintStart, sprintId |-> NoSprintId]

\* the loop shared by getNextNSprints and getPreviousNSprints: compute the
\* period of currentStartDate, n times
RECURSIVE SprintChain(_, _, _, _)
\* one pass through the loop body: the period gets its sprintId and is
\* pushed, and the loop goes on from its nextSprintStart
PushSprint(p, dev, qa, n) ==
  <<[p EXCEPT !.sprintId = SprintId(p.releaseDate)]>>
    \o SprintChain(p.nextSprintStart, dev, qa, n - 1)

SprintChain(currentStartDate, dev, qa, n) ==
  IF n = 0
    THEN <<>>
    ELSE PushSprint(calculateSprintPeriods(currentStartDate, dev, qa), dev, qa, n)

getNextNSprints(start, dev, qa, n) == SprintChain(start, dev, qa, n)

\* the first loop of getPreviousNSprints: count steps back of halfDevDays;
\* each pass computes the stepped date before the loop goes on
RECURSIVE StepBack(_, _, _)
StepBack(firstStartDate, halfDevDays, n) ==
  IF n = 0
    THEN firstStartDate
    ELSE CHOOSE first \in {StepBack(stepped, halfDevDays, n - 1) :
                             stepped \in {addDays(firstStartDate, -halfDevDays)}} : TRUE

getPreviousNSprints(start, dev, qa, n) ==
  LET halfDevDays == dev \div 2
      firstStartDate == StepBack(start, halfDevDays, n)
  IN  SprintChain(firstStartDate, dev, qa, n)

\* mutant: the QA window has no end
getCurrentPeriodType_QaOpenEnded(d, sprintPeriod) ==
  LET targetDate == setHoursZero(d)
      devStart == setHoursZero(sprintPeriod.developmentStart)
      devEnd == setHoursZero(sprintPeriod.developmentEnd)
      qaStart == setHoursZero(sprintPeriod.qaStart)
      releaseDate == setHoursZero(sprintPeriod.releaseDate)
  IN  IF targetDate >= devStart /\ targetDate <= devEnd THEN "development"
      ELSE IF targetDate >= qaStart THEN "qa"
      ELSE IF isSameDay(targetDate, releaseDate) THEN "release"
      ELSE "none"

\* getCurrentPeriodType(date, sprintPeriod)
getCurrentPeriodType(d, sprintPeriod) ==
  LET targetDate == setHoursZero(d)
      devStart == setHoursZero(sprintPeriod.developmentStart)
      devEnd == setHoursZero(sprintPeriod.developmentEnd)
      qaStart == setHoursZero(sprintPeriod.qaStart)
      qaEnd == setHoursZero(sprintPeriod.qaEnd)
      releaseDate == setHoursZero(sprintPeriod.releaseDate)
  IN  IF targetDate >= devStart /\ targetDate <= devEnd THEN "development"
      ELSE IF targetDate >= qaStart /\ targetDate <= qaEnd THEN "qa"
      ELSE IF isSameDay(targetDate, releaseDate) THEN "release"
      ELSE "none"

\* mutant: the first sort puts the latest release first
CompareReleaseDate_Descending(a, b) == getTime(b.releaseDate) - getTime(a.releaseDate)

\* the comparator of the first sort: a.releaseDate.getTime() - b.releaseDate.getTime()
CompareReleaseDate(a, b) == getTime(a.releaseDate) - getTime(b.releaseDate)

\* Array.prototype.sort is stable: an element goes behind those that do not
\* compare greater
InsertByReleaseDate(sorted, x) ==
  LET k == Cardinality({i \in DOMAIN sorted : CompareReleaseDate(sorted[i], x) <= 0})
  IN  SubSeq(sorted, 1, k) \o <<x>> \o SubSeq(sorted, k + 1, Len(sorted))

RECURSIVE SortByReleaseDate(_)
SortByReleaseDate(s) ==
  IF s = <<>>
    THEN <<>>
    ELSE InsertByReleaseDate(SortByReleaseDate(SubSeq(s, 1, Len(s) - 1)), s[Len(s)])

\* mutant: the list is walked in the caller's order
sortedPeriods_Unsorted(list) == list

\* [...sprintPeriods].sort(by release date)
sortedPeriods(list) == SortByReleaseDate(list)

MaxPeriods == 3    \* at most three periods are kept for a date

\* mutant: no entry is ever found for a sprintId
FindIndex_NotFound(res, sprintId) == 0

\* results.findIndex(r => r.sprintId === sprintId), 0 for -1
FindIndex(res, sprintId) ==
  LET hits == {i \in DOMAIN res : res[i].sprintId = sprintId}
  IN  IF hits = {} THEN 0 ELSE CHOOSE i \in hits : \A j \in hits : i <= j

\* mutant: no limit on the number of periods kept
CollectPeriod_NoLimit(res, d, sprint) ==
  LET type == getCurrentPeriodType(d, sprint)
      sprintId == SprintId(sprint.releaseDate)
      entry == [type |-> type, sprintId |-> sprintId, startDate |-> sprint.developmentStart]
      existingIndex == FindIndex(res, sprintId)
  IN  IF type = "none" THEN res
      ELSE IF existingIndex /= 0
        THEN IF type = "release" \/ (type = "qa" /\ res[existingIndex].type = "development")
               THEN [res EXCEPT ![existingIndex] = entry]
               ELSE res
        ELSE Append(res, entry)

\* the body of the loop over the sorted periods
CollectPeriod(res, d, sprint) ==
  LET type == getCurrentPeriodType(d, sprint)
      sprintId == SprintId(sprint.releaseDate)
      entry == [type |-> type, sprintId |-> sprintId, startDate |-> sprint.developmentStart]
      existingIndex == FindIndex(res, sprintId)
  IN  IF type = "none" THEN res
      ELSE IF Len(res) >= MaxPeriods THEN res
      ELSE IF existingIndex /= 0
        THEN IF type = "release" \/ (type = "qa" /\ res[existingIndex].type = "development")
               THEN [res EXCEPT ![existingIndex] = entry]
               ELSE res
        ELSE Append(res, entry)

RECURSIVE CollectPeriods(_, _, _)
CollectPeriods(res, d, sorted) ==
  IF sorted = <<>>
    THEN res
    ELSE CollectPeriods(CollectPeriod(res, d, Head(sorted)), d, Tail(sorted))

typeOrder(type) ==
  CASE type = "development" -> 0
    [] type = "qa" -> 1
    [] type = "release" -> 2

\* the comparator of the final sort
CompareType(a, b) == typeOrder(a.type) - typeOrder(b.type)

InsertByType(sorted, x) ==
  LET k == Cardinality({i \in DOMAIN sorted : CompareType(sorted[i], x) <= 0})
  IN  SubSeq(sorted, 1, k) \o <<x>> \o SubSeq(sorted, k + 1, Len(sorted))

RECURSIVE SortByTypeRec(_)
SortByTypeRec(s) ==
  IF s = <<>>
    THEN <<>>
    ELSE InsertByType(SortByTypeRec(SubSeq(s, 1, Len(s) - 1)), s[Len(s)])

\* mutant: the final sort by type is left out
SortByType_Skipped(res) == res

\* results.sort(by typeOrder)
SortByType(res) == SortByTypeRec(res)

getAllPeriodsForDate(d, list) ==
  SortByType(CollectPeriods(<<>>, d, sortedPeriods(list)))

\* mutant: the argument itself is sorted
ArgumentAfterSort_InPlace(list) == SortByReleaseDate(list)

\* the caller's array after getAllPeriodsForDate: [...sprintPeriods].sort(...)
\* sorts a copy, the argument keeps its ranges and their order
ArgumentAfterSort(list) == list

\* the first type other than none over the periods in the order given
RECURSIVE getPeriodTypeForDate(_, _)
getPeriodTypeForDate(d, list) ==
  IF list = <<>>
    THEN "none"
    ELSE IF getCurrentPeriodType(d, Head(list)) /= "none"
           THEN getCurrentPeriodType(d, Head(list))
           ELSE getPeriodTypeForDate(d, Tail(list))

(***************************************************************************)
(* params.ts, the version with a start weekday                             *)
(***************************************************************************)
\* params.get(name) of a parameter the URL does not have
Null == <<"null">>

\* if (param): null and the empty string are skipped
Truthy(text) == text /= Null /\ text /= <<>>

DEFAULT_CONFIG ==
  [startDayOfWeek |-> 2, developmentDays |-> 7, qaDays |-> 7, displayMonths |-> 3,
   centerDate |-> Num(now)]

\* !Number.isNaN(day) && day >= 0 && day <= 6
ValidStartDay(day) == ~day.isNaN /\ day.value >= 0 /\ day.value <= 6

\* mutant: any number is taken as a day count
ValidDays_AnyNumber(days) == ~days.isNaN

\* !Number.isNaN(days) && days > 0
ValidDays(days) == ~days.isNaN /\ days.value > 0

\* !Number.isNaN(months) && months > 0 && months <= 12
ValidMonths(months) == ~months.isNaN /\ months.value > 0 /\ months.value <= 12

parseUrlParams(params) ==
  [startDayOfWeek |->
     IF Truthy(params.startDay) /\ ValidStartDay(parseInt(params.startDay))
       THEN parseInt(params.startDay).value
       ELSE DEFAULT_CONFIG.startDayOfWeek,
   developmentDays |->
     IF Truthy(params.dev) /\ ValidDays(parseInt(params.dev))
       THEN parseInt(params.dev).value
       ELSE DEFAULT_CONFIG.developmentDays,
   qaDays |->
     IF Truthy(params.qa) /\ ValidDays(parseInt(params.qa))
       THEN parseInt(params.qa).value
       ELSE DEFAULT_CONFIG.qaDays,
   displayMonths |->
     IF Truthy(params.months) /\ ValidMonths(parseInt(params.months))
       THEN parseInt(params.months).value
       ELSE DEFAULT_CONFIG.displayMonths,
   centerDate |->
     IF Truthy(params.center)
       THEN parseDate(params.center)
       ELSE DEFAULT_CONFIG.centerDate]

NoQuery ==
  [startDay |-> Null, dev |-> Null, qa |-> Null, months |-> Null, center |-> Null]

NoConfig ==
  [startDayOfWeek |-> 0, developmentDays |-> 0, qaDays |-> 0, displayMonths |-> 0,
   centerDate |-> NaN]

(***************************************************************************)
(* components/calendar.ts                                                  *)
(***************************************************************************)
\* a blank before the first day of the month: new Date(0)
BlankDay == [date |-> 0, isToday |-> FALSE, periodType |-> "none"]

CalendarDay(d, list) ==
  [date |-> d, isToday |-> isToday(d), periodType |-> getPeriodTypeForDate(d, list)]

generateCalendarMonth(year, month, list) ==
  LET firstDay == getFirstDayOfMonth(createDate(year, month))
      daysInMonth == getDaysInMonth(firstDay)
      firstDayOfWeek == getDayOfWeek(firstDay)
  IN  [year |-> year,
       month |-> month,
       days |-> [i \in 1..(firstDayOfWeek + daysInMonth) |->
                  IF i <= firstDayOfWeek
                    THEN BlankDay
                    ELSE CalendarDay(newDate(year, month, i - firstDayOfWeek), list)]]

\* mutant: the months start at the month of the center date
halfMonths_None(displayMonths) == 0

\* Math.floor(config.displayMonths / 2)
halfMonths(displayMonths) == displayMonths \div 2

\* the year and month 0..11 of the first month shown
StartOfMonths(centerDate, displayMonths) ==
  LET centerYear == getFullYear(centerDate)
      centerMonth == getMonth(centerDate)
      startMonth == centerMonth - halfMonths(displayMonths)
      wrapped == 12 + Remainder(startMonth, 12)
      startYear == centerYear - ((-startMonth) + 11) \div 12
  IN  IF startMonth < 0
        THEN IF wrapped = 12
               THEN [year |-> startYear + 1, month |-> 0]
               ELSE [year |-> startYear, month |-> wrapped]
        ELSE [year |-> centerYear, month |-> startMonth]

\* generateCalendarMonths(config, sprintPeriods), for a config whose center
\* date is a valid Date
generateCalendarMonths(cfg, list) ==
  LET start == StartOfMonths(cfg.centerDate.value, cfg.displayMonths)
  IN  [i \in 1..cfg.displayMonths |->
         LET month == start.month + (i - 1)
         IN  IF month > 11
               THEN generateCalendarMonth(start.year + (month \div 12), month % 12, list)
               ELSE generateCalendarMonth(start.year, month, list)]

(***************************************************************************)
(* The calls explored.                                                     *)
(***************************************************************************)
StartDates ==
  {(FirstDay + k) * TicksPerDay + t : k \in 0..MaxStartOffset, t \in 0..(TicksPerDay - 1)}

NoPeriod ==
  [developmentStart |-> 0, developmentEnd |-> 0, qaStart |-> 0, qaEnd |-> 0,
   releaseDate |-> 0, nextSprintStart |-> 0, sprintId |-> NoSprintId]

Init ==
  /\ op = "init"
  /\ startDate \in StartDates
  /\ devDays \in 1..MaxDevDays
  /\ qaDays \in 1..MaxQaDays
  /\ count = 0
  /\ period = NoPeriod
  /\ sprintPeriods = <<>>
  /\ date = 0
  /\ results = <<>>
  /\ periodType = "none"
  /\ targetDay = 0
  /\ wantFuture = FALSE
  /\ nearest = 0
  /\ now = 0
  /\ query = NoQuery
  /\ config = NoConfig
  /\ calendarMonths = <<>>
  /\ answer = 0

\* calculateSprintPeriods(startDate, devDays, qaDays)
CalculateSprintPeriods ==
  /\ op = "init"
  /\ op' = "calculateSprintPeriods"
  /\ period' = calculateSprintPeriods(startDate, devDays, qaDays)
  /\ UNCHANGED <<startDate, devDays, qaDays, count, sprintPeriods, date, results,
                 periodType, targetDay, wantFuture, nearest>>
  /\ UNCHANGED appVars

\* sprintPeriods = getNextNSprints(startDate, devDays, qaDays, n)
GetNextNSprints ==
  \E n \in 1..MaxCount :
    /\ op = "init"
    /\ op' = "getNextNSprints"
    /\ count' = n
    /\ sprintPeriods' = getNextNSprints(startDate, devDays, qaDays, n)
    /\ UNCHANGED <<startDate, devDays, qaDays, period, date, results,
                   periodType, targetDay, wantFuture, nearest>>
    /\ UNCHANGED appVars

\* sprintPeriods = getPreviousNSprints(startDate, devDays, qaDays, n)
GetPreviousNSprints ==
  \E n \in 1..MaxCount :
    /\ op = "init"
    /\ op' = "getPreviousNSprints"
    /\ count' = n
    /\ sprintPeriods' = getPreviousNSprints(startDate, devDays, qaDays, n)
    /\ UNCHANGED <<startDate, devDays, qaDays, period, date, results,
                   periodType, targetDay, wantFuture, nearest>>
    /\ UNCHANGED appVars

\* the dates a single range is asked about: from the day before its start to
\* the day after its release, at the first and at the last tick of the day
DatesAround(p) ==
  {k * TicksPerDay + t :
     k \in (DayOf(p.developmentStart) - 1)..(DayOf(p.releaseDate) + 1),
     t \in {0, TicksPerDay - 1}}

\* results = getAllPeriodsForDate(d, [period]), for the range just calculated
GetAllPeriodsForDateOfPeriod ==
  \E d \in DatesAround(period) :
    /\ op = "calculateSprintPeriods"
    /\ op' = "getAllPeriodsForDateOfPeriod"
    /\ date' = d
    /\ sprintPeriods' = <<period>>
    /\ results' = getAllPeriodsForDate(d, <<period>>)
    /\ UNCHANGED <<startDate, devDays, qaDays, count, period,
                   periodType, targetDay, wantFuture, nearest>>
    /\ UNCHANGED appVars

\* nearest = getNearestDayOfWeek(w, startDate, f)
GetNearestDayOfWeek ==
  \E w \in 0..6, f \in BOOLEAN :
    /\ op = "init"
    /\ op' = "getNearestDayOfWeek"
    /\ targetDay' = w
    /\ wantFuture' = f
    /\ nearest' = getNearestDayOfWeek(w, startDate, f)
    /\ UNCHANGED <<startDate, devDays, qaDays, count, period, sprintPeriods, date,
                   results, periodType>>
    /\ UNCHANGED appVars

Next ==
  \/ CalculateSprintPeriods
  \/ GetNextNSprints
  \/ GetPreviousNSprints
  \/ GetAllPeriodsForDateOfPeriod
  \/ GetNearestDayOfWeek

Spec == Init /\ [][Next]_vars

(***************************************************************************)
(* Hand-built lists of ranges, as a caller or a test passes them to        *)
(* getAllPeriodsForDate: each range is a calculateSprintPeriods result,     *)
(* pushed in any order.                                                    *)
(***************************************************************************)
\* the hand-built ranges, as <<days after the first start date, devDays, qaDays>>:
\* sprints of two neighbouring start days, some of them releasing on the same day
ListRanges ==
  {<<0, 1, 1>>, <<0, 7, 1>>, <<0, 7, 2>>, <<0, 8, 1>>, <<1, 7, 1>>, <<1, 7, 2>>}

\* days after the first start date at which a date is classified
ProbeOffsets == {1, 7, 8}

\* the dates classified, at the first and at the last tick of their day
ProbeDates ==
  {(FirstDay + k) * TicksPerDay + t : k \in ProbeOffsets, t \in {0, TicksPerDay - 1}}

InitLists ==
  /\ op = "init"
  /\ startDate = 0
  /\ devDays = 0
  /\ qaDays = 0
  /\ count = 0
  /\ period = NoPeriod
  /\ sprintPeriods = <<>>
  /\ date = 0
  /\ results = <<>>
  /\ periodType = "none"
  /\ targetDay = 0
  /\ wantFuture = FALSE
  /\ nearest = 0
  /\ now = 0
  /\ query = NoQuery
  /\ config = NoConfig
  /\ calendarMonths = <<>>
  /\ answer = 0

\* sprintPeriods.push(calculateSprintPeriods(s, d, q))
PushPeriod ==
  \E r \in ListRanges :
    /\ op \in {"init", "push"}
    /\ Len(sprintPeriods) < MaxRanges
    /\ op' = "push"
    /\ startDate' = (FirstDay + r[1]) * TicksPerDay
    /\ devDays' = r[2]
    /\ qaDays' = r[3]
    /\ period' = calculateSprintPeriods(startDate', r[2], r[3])
    /\ sprintPeriods' = Append(sprintPeriods, period')
    /\ UNCHANGED <<count, date, results, periodType, targetDay, wantFuture, nearest>>
    /\ UNCHANGED appVars

\* results = getAllPeriodsForDate(d, sprintPeriods)
GetAllPeriodsForDate ==
  \E d \in ProbeDates :
    /\ op \in {"init", "push"}
    /\ op' = "getAllPeriodsForDate"
    /\ date' = d
    /\ results' = getAllPeriodsForDate(d, sprintPeriods)
    /\ sprintPeriods' = ArgumentAfterSort(sprintPeriods)
    /\ UNCHANGED <<startDate, devDays, qaDays, count, period,
                   periodType, targetDay, wantFuture, nearest>>
    /\ UNCHANGED appVars

\* periodType = getPeriodTypeForDate(d, sprintPeriods)
GetPeriodTypeForDate ==
  \E d \in ProbeDates :
    /\ op \in {"init", "push"}
    /\ op' = "getPeriodTypeForDate"
    /\ date' = d
    /\ periodType' = getPeriodTypeForDate(d, sprintPeriods)
    /\ UNCHANGED <<startDate, devDays, qaDays, count, period, sprintPeriods,
                   results, targetDay, wantFuture, nearest>>
    /\ UNCHANGED appVars

NextLists ==
  \/ PushPeriod
  \/ GetAllPeriodsForDate
  \/ GetPeriodTypeForDate

SpecLists == InitLists /\ [][NextLists]_vars

(***************************************************************************)
(* The URL of the page, as parseUrlParams reads it.                        *)
(***************************************************************************)
\* texts of the startDay, dev, qa and months parameters: absent, empty, in
\* and out of range, negative, digits followed by a letter, no digit at all
IntTexts ==
  {Null, <<>>, <<"0">>, <<"3">>, <<"1", "2">>, <<"1", "3">>, <<"-", "1">>,
   <<"7", "x">>, <<"x">>}

\* texts of the center parameter: absent, 2025-03-15, 2025-02-31, abc, 2025-03
DateTexts ==
  {Null,
   <<"2", "0", "2", "5", "-", "0", "3", "-", "1", "5">>,
   <<"2", "0", "2", "5", "-", "0", "2", "-", "3", "1">>,
   <<"a", "b", "c">>,
   <<"2", "0", "2", "5", "-", "0", "3">>}

\* the clock when the page loads: the afternoon of the first day
PageLoads == {FirstDay * TicksPerDay + (TicksPerDay - 1)}

InitParams ==
  /\ op = "init"
  /\ startDate = 0
  /\ devDays = 0
  /\ qaDays = 0
  /\ count = 0
  /\ period = NoPeriod
  /\ sprintPeriods = <<>>
  /\ date = 0
  /\ results = <<>>
  /\ periodType = "none"
  /\ targetDay = 0
  /\ wantFuture = FALSE
  /\ nearest = 0
  /\ now \in PageLoads
  /\ query \in [startDay : IntTexts, dev : IntTexts, qa : IntTexts, months : IntTexts,
                 center : DateTexts]
  /\ config = NoConfig
  /\ calendarMonths = <<>>
  /\ answer = 0

\* config = parseUrlParams(url)
ParseUrlParams ==
  /\ op = "init"
  /\ op' = "parseUrlParams"
  /\ config' = parseUrlParams(query)
  /\ UNCHANGED <<startDate, devDays, qaDays, count, period, sprintPeriods, date, results,
                 periodType, targetDay, wantFuture, nearest, now, query, calendarMonths, answer>>

NextParams == ParseUrlParams

SpecParams == InitParams /\ [][NextParams]_vars

(***************************************************************************)
(* The calendar of the months around a center date, for the sprints that   *)
(* follow the first start date.                                            *)
(***************************************************************************)
MaxDisplayMonths == 12    \* the most months parseUrlParams lets through

\* center dates: the first and the 28th of every month of 2025, at the first
\* and at the last tick of the day
CenterDates ==
  {newDate(2025, m, d) + t : m \in 0..11, d \in {1, 28}, t \in {0, TicksPerDay - 1}}

\* the sprints shown: four sprints of 7 and 7 days, which overlap
ShownSprints == getNextNSprints(FirstDay * TicksPerDay, 7, 7, 4)

InitCalendar ==
  /\ op = "init"
  /\ startDate = 0
  /\ devDays = 0
  /\ qaDays = 0
  /\ count = 0
  /\ period = NoPeriod
  /\ sprintPeriods = ShownSprints
  /\ date = 0
  /\ results = <<>>
  /\ periodType = "none"
  /\ targetDay = 0
  /\ wantFuture = FALSE
  /\ nearest = 0
  /\ now \in PageLoads
  /\ query = NoQuery
  /\ \E m \in 1..MaxDisplayMonths, c \in CenterDates :
       config = [DEFAULT_CONFIG EXCEPT !.displayMonths = m, !.centerDate = Num(c)]
  /\ calendarMonths = <<>>
  /\ answer = 0

\* calendarMonths = generateCalendarMonths(config, sprintPeriods)
GenerateCalendarMonths ==
  /\ op = "init"
  /\ op' = "generateCalendarMonths"
  /\ calendarMonths' = generateCalendarMonths(config, sprintPeriods)
  /\ UNCHANGED <<startDate, devDays, qaDays, count, period, sprintPeriods, date, results,
                 periodType, targetDay, wantFuture, nearest, now, query, config, answer>>

NextCalendar == GenerateCalendarMonths

SpecCalendar == InitCalendar /\ [][NextCalendar]_vars

(***************************************************************************)
(* One call of each calculator operation, on a start date and on a list    *)
(* the caller holds in any order.                                          *)
(***************************************************************************)
\* <<devDays, qaDays>> of the calls
CallCadences == {<<1, 1>>, <<3, 2>>, <<7, 7>>}

\* the lists held: two hand-built ranges, in either order
HeldLists ==
  {<<calculateSprintPeriods((FirstDay + a[1]) * TicksPerDay, a[2], a[3]),
     calculateSprintPeriods((FirstDay + b[1]) * TicksPerDay, b[2], b[3])>> :
     a \in {<<0, 1, 1>>, <<0, 7, 2>>}, b \in {<<0, 7, 1>>, <<1, 7, 2>>, <<0, 1, 1>>}}

InitCalls ==
  /\ op = "init"
  /\ startDate \in StartDates
  /\ \E c \in CallCadences : devDays = c[1] /\ qaDays = c[2]
  /\ count = 0
  /\ period = NoPeriod
  /\ sprintPeriods \in HeldLists
  /\ date = 0
  /\ results = <<>>
  /\ periodType = "none"
  /\ targetDay = 0
  /\ wantFuture = FALSE
  /\ nearest = 0
  /\ now = 0
  /\ query = NoQuery
  /\ config = NoConfig
  /\ calendarMonths = <<>>
  /\ answer = 0

NextCalls ==
  \/ CalculateSprintPeriods
  \/ GetNextNSprints
  \/ GetPreviousNSprints
  \/ GetNearestDayOfWeek
  \/ GetAllPeriodsForDate

SpecCalls == InitCalls /\ [][NextCalls]_vars

(***************************************************************************)
(* The month functions of date-utils.ts, each called once with a date of   *)
(* the winter of 2024/25: every day from 2024-12-28 to 2025-03-03, at      *)
(* every time of day.                                                      *)
(***************************************************************************)
MonthDates ==
  {d * TicksPerDay + h :
     d \in DaysFromCivil(2024, 12, 28)..DaysFromCivil(2025, 3, 3), h \in 0..(TicksPerDay - 1)}

InitMonths ==
  /\ op = "init"
  /\ startDate = 0
  /\ devDays = 0
  /\ qaDays = 0
  /\ count = 0
  /\ period = NoPeriod
  /\ sprintPeriods = <<>>
  /\ date \in MonthDates
  /\ results = <<>>
  /\ periodType = "none"
  /\ targetDay = 0
  /\ wantFuture = FALSE
  /\ nearest = 0
  /\ now = 0
  /\ query = NoQuery
  /\ config = NoConfig
  /\ calendarMonths = <<>>
  /\ answer = 0

\* answer = getFirstDayOfMonth(date)
GetFirstDayOfMonth ==
  /\ op = "init"
  /\ op' = "getFirstDayOfMonth"
  /\ answer' = getFirstDayOfMonth(date)
  /\ UNCHANGED <<startDate, devDays, qaDays, count, period, sprintPeriods, date, results,
                 periodType, targetDay, wantFuture, nearest, now, query, config,
                 calendarMonths>>

\* answer = getLastDayOfMonth(date)
GetLastDayOfMonth ==
  /\ op = "init"
  /\ op' = "getLastDayOfMonth"
  /\ answer' = getLastDayOfMonth(date)
  /\ UNCHANGED <<startDate, devDays, qaDays, count, period, sprintPeriods, date, results,
                 periodType, targetDay, wantFuture, nearest, now, query, config,
                 calendarMonths>>

\* answer = getDaysInMonth(date)
GetDaysInMonth ==
  /\ op = "init"
  /\ op' = "getDaysInMonth"
  /\ answer' = getDaysInMonth(date)
  /\ UNCHANGED <<startDate, devDays, qaDays, count, period, sprintPeriods, date, results,
                 periodType, targetDay, wantFuture, nearest, now, query, config,
                 calendarMonths>>

NextMonths ==
  \/ GetFirstDayOfMonth
  \/ GetLastDayOfMonth
  \/ GetDaysInMonth

SpecMonths == InitMonths /\ [][NextMonths]_vars

(***************************************************************************)
(* main.ts: the page load.  The URL carries no center parameter, so the    *)
(* calendar is centered on today; the other parameters are absent or valid.*)
(***************************************************************************)
\* texts of the startDay parameter: absent, Sunday, Friday
StartDayTexts == {Null, <<"0">>, <<"5">>}

\* texts of the dev and qa parameters: absent (7 and 7), 10 and 5, 14 and 14
CadenceTexts ==
  {<<Null, Null>>, <<<<"1", "0">>, <<"5">>>>, <<<<"1", "4">>, <<"1", "4">>>>}

\* texts of the months parameter: absent (3), 1, 2
MonthsTexts == {Null, <<"1">>, <<"2">>}

\* Math.ceil((config.displayMonths * 31) / sprintCycleLength) * 2
requiredSprints(cfg) ==
  LET sprintCycleLength == cfg.developmentDays + cfg.qaDays + 1
  IN  (((cfg.displayMonths * 31) + sprintCycleLength - 1) \div sprintCycleLength) * 2

InitPage ==
  /\ op = "init"
  /\ startDate = 0
  /\ devDays = 0
  /\ qaDays = 0
  /\ count = 0
  /\ period = NoPeriod
  /\ sprintPeriods = <<>>
  /\ date = 0
  /\ results = <<>>
  /\ periodType = "none"
  /\ targetDay = 0
  /\ wantFuture = FALSE
  /\ nearest = 0
  /\ now \in StartDates
  /\ \E day \in StartDayTexts, cadence \in CadenceTexts, months \in MonthsTexts :
       query = [startDay |-> day, dev |-> cadence[1], qa |-> cadence[2],
                months |-> months, center |-> Null]
  /\ config = NoConfig
  /\ calendarMonths = <<>>
  /\ answer = 0

\* initApp(): the configuration from the URL, the sprints before and after
\* the nearest past start weekday, and the calendar made of them
InitApp ==
  LET cfg == parseUrlParams(query)
      start == getNearestDayOfWeek(cfg.startDayOfWeek, now, FALSE)
      pastSprintPeriods ==
        getPreviousNSprints(start, cfg.developmentDays, cfg.qaDays, requiredSprints(cfg))
      futureSprintPeriods ==
        getNextNSprints(start, cfg.developmentDays, cfg.qaDays, requiredSprints(cfg))
  IN  /\ op = "init"
      /\ op' = "initApp"
      /\ config' = cfg
      /\ devDays' = cfg.developmentDays
      /\ qaDays' = cfg.qaDays
      /\ count' = requiredSprints(cfg)
      /\ startDate' = start
      /\ sprintPeriods' = pastSprintPeriods \o futureSprintPeriods
      /\ calendarMonths' = generateCalendarMonths(cfg, pastSprintPeriods \o futureSprintPeriods)
      /\ UNCHANGED <<period, date, results, periodType, targetDay, wantFuture, nearest, now,
                     query, answer>>

NextApp == InitApp

SpecApp == InitPage /\ [][NextApp]_vars

(***************************************************************************)
(* Properties.                                                             *)
(***************************************************************************)
\* <<year, month 1..12, day of month>> of a Date
YMD(t) == <<getFullYear(t), getMonth(t) + 1, getDate(t)>>

\* the Date n calendar days after t, at the same time of day
PlusDays(t, n) == t + n * TicksPerDay

\* the weekday of day number n
WeekdayOfDay(n) == getDay(n * TicksPerDay)

\* the day number of the release date an entry's sprintId is made of
ReleaseDayOf(entry) == DaysFromCivil(entry.sprintId[1], entry.sprintId[2], entry.sprintId[3])

\* the ranges of the list that claim the probe date
Claimants == {i \in DOMAIN sprintPeriods : getCurrentPeriodType(date, sprintPeriods[i]) /= "none"}

ChainOps == {"getNextNSprints", "getPreviousNSprints"}

\* C1: the release date is qaEnd when qaEnd falls on the start weekday, and
\* otherwise the earliest day >= qaEnd + 1 that falls on the start weekday
C1_ReleaseDateEarliestAligned ==
  op = "calculateSprintPeriods" =>
    LET target == getDay(startDate)
        qaEndDay == DayOf(period.qaEnd)
        release == DayOf(period.releaseDate)
    IN  IF WeekdayOfDay(qaEndDay) = target
          THEN release = qaEndDay
          ELSE /\ release >= qaEndDay + 1
               /\ WeekdayOfDay(release) = target
               /\ \A n \in (qaEndDay + 1)..(release - 1) : WeekdayOfDay(n) /= target

\* C2: developmentStart <= developmentEnd < qaStart <= qaEnd < releaseDate
C2_RangeOrdering ==
  op = "calculateSprintPeriods" =>
    /\ period.developmentStart <= period.developmentEnd
    /\ period.developmentEnd < period.qaStart
    /\ period.qaStart <= period.qaEnd
    /\ period.qaEnd < period.releaseDate

\* C3: the release date of every computed range, alone or in a list, falls
\* on the weekday of the range's development start
C3_WeekdayAlignment ==
  /\ op = "calculateSprintPeriods" =>
       getDay(period.releaseDate) = getDay(period.developmentStart)
  /\ op \in ChainOps =>
       \A i \in DOMAIN sprintPeriods :
         getDay(sprintPeriods[i].releaseDate) = getDay(sprintPeriods[i].developmentStart)

\* a backward chain of several sprints whose release days had to be searched
\* past the QA end, the last one releasing in another month than it starts
C3_Witness ==
  /\ op = "getPreviousNSprints"
  /\ Len(sprintPeriods) >= 3
  /\ \A i \in DOMAIN sprintPeriods :
       getDay(sprintPeriods[i].qaEnd) /= getDay(sprintPeriods[i].developmentStart)
  /\ getMonth(sprintPeriods[3].releaseDate) /= getMonth(sprintPeriods[3].developmentStart)

\* C4: developmentStart is the start date, the development window has
\* devDays days, QA starts the day after it and has qaDays days
C4_WindowLengths ==
  op = "calculateSprintPeriods" =>
    /\ period.developmentStart = startDate
    /\ period.developmentEnd = PlusDays(period.developmentStart, devDays - 1)
    /\ period.qaStart = PlusDays(period.developmentEnd, 1)
    /\ period.qaEnd = PlusDays(period.qaStart, qaDays - 1)

\* the README's sprint, started in the afternoon: its windows cross the end
\* of February
C4_Witness ==
  /\ op = "calculateSprintPeriods"
  /\ YMD(startDate) = <<2025, 2, 25>>
  /\ TimeOfDay(startDate) /= 0
  /\ devDays = 7
  /\ qaDays = 7
  /\ YMD(period.developmentEnd) = <<2025, 3, 3>>
  /\ YMD(period.qaEnd) = <<2025, 3, 10>>

\* C5: the release date is the day after the QA end, a sprint spans
\* devDays + qaDays + 1 days, and with 7/7 days the release date is
\* developmentStart + 14 days
C5_ReleaseDayAfterQaEnd ==
  op = "calculateSprintPeriods" =>
    /\ period.releaseDate = PlusDays(period.qaEnd, 1)
    /\ DayOf(period.releaseDate) - DayOf(period.developmentStart) + 1 = devDays + qaDays + 1
    /\ (devDays = 7 /\ qaDays = 7) =>
         period.releaseDate = PlusDays(period.developmentStart, 14)

\* C6: in the list of getNextNSprints each sprint's development starts on
\* the QA start of the sprint before it
C6_NextStartsAtQaStart ==
  op = "getNextNSprints" =>
    \A i \in 1..(Len(sprintPeriods) - 1) :
      sprintPeriods[i + 1].developmentStart = sprintPeriods[i].qaStart

\* C7: getNextNSprints(2025-02-25, 7, 7, 3) is the README's three sprints,
\* and with 7/7 days each sprint is the one before it shifted by 7 days
C7_ReadmeExample ==
  (op = "getNextNSprints" /\ devDays = 7 /\ qaDays = 7) =>
    /\ \A i \in 1..(Len(sprintPeriods) - 1) :
         /\ sprintPeriods[i + 1].developmentStart = PlusDays(sprintPeriods[i].developmentStart, 7)
         /\ sprintPeriods[i + 1].developmentEnd = PlusDays(sprintPeriods[i].developmentEnd, 7)
         /\ sprintPeriods[i + 1].qaStart = PlusDays(sprintPeriods[i].qaStart, 7)
         /\ sprintPeriods[i + 1].qaEnd = PlusDays(sprintPeriods[i].qaEnd, 7)
         /\ sprintPeriods[i + 1].releaseDate = PlusDays(sprintPeriods[i].releaseDate, 7)
    /\ (YMD(startDate) = <<2025, 2, 25>> /\ count = 3) =>
         /\ Len(sprintPeriods) = 3
         /\ <<YMD(sprintPeriods[1].developmentStart), YMD(sprintPeriods[1].developmentEnd),
              YMD(sprintPeriods[1].qaStart), YMD(sprintPeriods[1].qaEnd),
              YMD(sprintPeriods[1].releaseDate)>>
              = <<<<2025, 2, 25>>, <<2025, 3, 3>>, <<2025, 3, 4>>, <<2025, 3, 10>>, <<2025, 3, 11>>>>
         /\ <<YMD(sprintPeriods[2].developmentStart), YMD(sprintPeriods[2].developmentEnd),
              YMD(sprintPeriods[2].qaStart), YMD(sprintPeriods[2].qaEnd),
              YMD(sprintPeriods[2].releaseDate)>>
              = <<<<2025, 3, 4>>, <<2025, 3, 10>>, <<2025, 3, 11>>, <<2025, 3, 17>>, <<2025, 3, 18>>>>
         /\ <<YMD(sprintPeriods[3].developmentStart), YMD(sprintPeriods[3].developmentEnd),
              YMD(sprintPeriods[3].qaStart), YMD(sprintPeriods[3].qaEnd),
              YMD(sprintPeriods[3].releaseDate)>>
              = <<<<2025, 3, 11>>, <<2025, 3, 17>>, <<2025, 3, 18>>, <<2025, 3, 24>>, <<2025, 3, 25>>>>

\* C8: getAllPeriodsForDate returns at most 3 entries
C8_AtMostThreeEntries ==
  op = "getAllPeriodsForDate" => Len(results) <= 3

\* four sprints with four release dates claim the probe date, three are kept
C8_Witness ==
  /\ op = "getAllPeriodsForDate"
  /\ Cardinality({SprintId(sprintPeriods[i].releaseDate) : i \in Claimants}) >= 4
  /\ Len(results) = 3

TypesOfSprint(sprintId) ==
  {getCurrentPeriodType(date, sprintPeriods[i]) :
     i \in {k \in Claimants : SprintId(sprintPeriods[k].releaseDate) = sprintId}}

\* release over qa over development
HighestPrecedence(types) ==
  CHOOSE t \in types : \A u \in types : typeOrder(u) <= typeOrder(t)

\* no two entries of the result share a sprintId
NoDuplicateSprintId ==
  \A i, j \in DOMAIN results : i /= j => results[i].sprintId /= results[j].sprintId

\* C11: no two returned entries share a sprintId, and the entry kept for a
\* sprintId carries the highest-precedence type (release over qa over
\* development) among the types the ranges with that sprintId yield
C11_UniqueWithHighestPrecedence ==
  op = "getAllPeriodsForDate" =>
    /\ NoDuplicateSprintId
    /\ \A i \in DOMAIN results :
         results[i].type = HighestPrecedence(TypesOfSprint(results[i].sprintId))

\* the release days of the ranges that claim the probe date
ClaimingReleaseDays == {DayOf(sprintPeriods[i].releaseDate) : i \in Claimants}

\* the n earliest days of a set of days
Earliest(days, n) == {d \in days : Cardinality({e \in days : e < d}) < n}

\* C12: when more than three sprints with distinct release dates claim the
\* probe date, the entries returned are exactly those of the three claiming
\* sprints with the earliest release dates, whatever the order of the list
C12_ThreeEarliestReleases ==
  (op = "getAllPeriodsForDate" /\ Cardinality(ClaimingReleaseDays) > MaxPeriods) =>
    /\ Len(results) = MaxPeriods
    /\ {ReleaseDayOf(results[i]) : i \in DOMAIN results}
         = Earliest(ClaimingReleaseDays, MaxPeriods)

\* four sprints with distinct release dates claim the date, the list names
\* the latest release first, and that sprint is the one left out
C12_Witness ==
  /\ op = "getAllPeriodsForDate"
  /\ Cardinality(ClaimingReleaseDays) > MaxPeriods
  /\ \A i \in 2..Len(sprintPeriods) :
       getTime(sprintPeriods[i].releaseDate) < getTime(sprintPeriods[1].releaseDate)
  /\ Len(results) = MaxPeriods
  /\ \A i \in DOMAIN results :
       ReleaseDayOf(results[i]) /= DayOf(sprintPeriods[1].releaseDate)

\* the smaller of two numbers
Min(a, b) == IF a <= b THEN a ELSE b

\* C13 as stated: four or more ranges that all claim the probe date yield a
\* list of length exactly three
C13_FourClaimantsLengthThree ==
  (op = "getAllPeriodsForDate" /\ Cardinality(Claimants) >= MaxPeriods + 1) =>
    Len(results) = MaxPeriods

\* C13: when four or more ranges claim the probe date, the length of the
\* returned list is the number of distinct release dates among the claiming
\* ranges, up to three; it is exactly three when they have at least three
\* distinct release dates
C13_LengthIsDistinctReleasesUpToThree ==
  (op = "getAllPeriodsForDate" /\ Cardinality(Claimants) >= MaxPeriods + 1) =>
    Len(results) = Min(MaxPeriods, Cardinality(ClaimingReleaseDays))

\* four ranges claim the date, they release on two days only, and two entries
\* are returned
C13_Witness ==
  /\ op = "getAllPeriodsForDate"
  /\ Cardinality(Claimants) >= MaxPeriods + 1
  /\ Cardinality(ClaimingReleaseDays) = 2
  /\ Len(results) = 2

\* the result is the single entry of the given type
SingleEntryOfType(type) == Len(results) = 1 /\ results[1].type = type

\* C14: classifying a range's own release date against that range alone
\* yields exactly one entry, of type release (getCurrentPeriodType returns
\* release), and any other date of [qaStart, qaEnd] yields qa; for the range
\* started 2025-02-25 with 7/7 days, 2025-03-11 is release and 2025-03-06 is qa
C14_OwnReleaseDateIsRelease ==
  op = "getAllPeriodsForDateOfPeriod" =>
    /\ isSameDay(date, period.releaseDate) =>
         /\ getCurrentPeriodType(date, period) = "release"
         /\ SingleEntryOfType("release")
    /\ (/\ DayOf(period.qaStart) <= DayOf(date)
        /\ DayOf(date) <= DayOf(period.qaEnd)
        /\ ~isSameDay(date, period.releaseDate)) =>
         /\ getCurrentPeriodType(date, period) = "qa"
         /\ SingleEntryOfType("qa")
    /\ (YMD(startDate) = <<2025, 2, 25>> /\ devDays = 7 /\ qaDays = 7) =>
         /\ YMD(date) = <<2025, 3, 11>> => SingleEntryOfType("release")
         /\ YMD(date) = <<2025, 3, 6>> => SingleEntryOfType("qa")

\* the calendar day of d lies between the calendar days of from and to
InWindow(d, from, to) == DayOf(from) <= DayOf(d) /\ DayOf(d) <= DayOf(to)

\* the ranges of the list have pairwise distinct release dates
DistinctReleaseDates ==
  \A i, j \in DOMAIN sprintPeriods :
    i /= j => ~isSameDay(sprintPeriods[i].releaseDate, sprintPeriods[j].releaseDate)

\* the entries of the result that belong to a range
EntriesOf(p) == {k \in DOMAIN results : results[k].sprintId = SprintId(p.releaseDate)}

\* C15: for a list of ranges with pairwise distinct release dates, every range
\* has at most one entry; the entry is development iff the date lies in
\* [developmentStart, developmentEnd], qa iff it lies in [qaStart, qaEnd],
\* release iff it is the release date; a range that contains the date in none
\* of the three has no entry
C15_OneTypePerRange ==
  (op = "getAllPeriodsForDate" /\ DistinctReleaseDates) =>
    \A i \in DOMAIN sprintPeriods :
      LET p == sprintPeriods[i]
          inDev == InWindow(date, p.developmentStart, p.developmentEnd)
          inQa == InWindow(date, p.qaStart, p.qaEnd)
          onRelease == isSameDay(date, p.releaseDate)
      IN  /\ Cardinality(EntriesOf(p)) <= 1
          /\ \A k \in EntriesOf(p) :
               /\ results[k].type = "development" <=> inDev
               /\ results[k].type = "qa" <=> inQa
               /\ results[k].type = "release" <=> onRelease
          /\ ~(inDev \/ inQa \/ onRelease) => EntriesOf(p) = {}

\* the probe date lies in no development window, in no QA window and on no
\* release date of the list (an empty list included)
OutsideAllRanges ==
  \A i \in DOMAIN sprintPeriods :
    /\ ~InWindow(date, sprintPeriods[i].developmentStart, sprintPeriods[i].developmentEnd)
    /\ ~InWindow(date, sprintPeriods[i].qaStart, sprintPeriods[i].qaEnd)
    /\ ~isSameDay(date, sprintPeriods[i].releaseDate)

\* C16: for an empty list, and for a probe date in no window and on no release
\* date of the list, getAllPeriodsForDate returns the empty list and
\* getPeriodTypeForDate returns none
C16_NoMatchIsEmptyOrNone ==
  OutsideAllRanges =>
    /\ op = "getAllPeriodsForDate" => results = <<>>
    /\ op = "getPeriodTypeForDate" => periodType = "none"

\* a list of several ranges, none of which holds the probe date, was
\* classified
C16_Witness ==
  /\ op \in {"getAllPeriodsForDate", "getPeriodTypeForDate"}
  /\ Len(sprintPeriods) >= 2
  /\ OutsideAllRanges
  /\ results = <<>>
  /\ periodType = "none"

\* the number of days from the base date back to the latest day, the base
\* date's own day included, that falls on the target weekday
DaysBackToTarget ==
  CHOOSE k \in 0..6 : WeekdayOfDay(DayOf(startDate) - k) = targetDay

\* the number of days from the base date on to the earliest later day that
\* falls on the target weekday
DaysOnToTarget ==
  CHOOSE k \in 1..7 : WeekdayOfDay(DayOf(startDate) + k) = targetDay

\* C17: with future = false, getNearestDayOfWeek returns the latest date not
\* after the base date that falls on the target weekday: 0 to 6 days before
\* the base date, and the base date itself when it is on the target weekday
C17_BackwardLatestNotAfterBase ==
  (op = "getNearestDayOfWeek" /\ ~wantFuture) =>
    /\ getDay(nearest) = targetDay
    /\ nearest = PlusDays(startDate, -DaysBackToTarget)
    /\ nearest <= startDate
    /\ getDay(startDate) = targetDay => nearest = startDate

\* a backward search from a base date, not at midnight, that lies six days
\* after the target weekday
C17_Witness ==
  /\ op = "getNearestDayOfWeek"
  /\ ~wantFuture
  /\ TimeOfDay(startDate) /= 0
  /\ nearest = PlusDays(startDate, -6)

\* C18: with future = true, getNearestDayOfWeek returns a date strictly after
\* the base date that falls on the target weekday, 1 to 7 days after the base
\* date, and exactly 7 days after it when the base date is on the target
\* weekday
C18_ForwardStrictlyAfterBase ==
  (op = "getNearestDayOfWeek" /\ wantFuture) =>
    /\ getDay(nearest) = targetDay
    /\ nearest > startDate
    /\ nearest = PlusDays(startDate, DaysOnToTarget)
    /\ getDay(startDate) = targetDay => nearest = PlusDays(startDate, 7)

\* a forward search from a base date that is on the target weekday
C18_Witness ==
  /\ op = "getNearestDayOfWeek"
  /\ wantFuture
  /\ getDay(startDate) = targetDay
  /\ TimeOfDay(startDate) /= 0
  /\ nearest = PlusDays(startDate, 7)

\* C19: for count >= 2 the lists of getNextNSprints and getPreviousNSprints
\* are strictly ascending: each sprint's developmentStart is strictly later
\* than that of the sprint before it
C19_StrictlyAscendingStarts ==
  (op \in ChainOps /\ count >= 2) =>
    \A i \in 1..(Len(sprintPeriods) - 1) :
      getTime(sprintPeriods[i].developmentStart)
        < getTime(sprintPeriods[i + 1].developmentStart)

\* C20: getPreviousNSprints walks backward from the anchor in 7-day steps
\* whatever devDays and qaDays are: the developmentStart dates are 7 days
\* apart, each a whole number of weeks before the anchor, and each range is
\* calculateSprintPeriods of its own start date
C20_PreviousWalksWeekly ==
  op = "getPreviousNSprints" =>
    /\ \A i \in 1..(Len(sprintPeriods) - 1) :
         sprintPeriods[i + 1].developmentStart
           = PlusDays(sprintPeriods[i].developmentStart, 7)
    /\ \A i \in DOMAIN sprintPeriods :
         /\ \E k \in 1..count :
              sprintPeriods[i].developmentStart = PlusDays(startDate, -7 * k)
         /\ [sprintPeriods[i] EXCEPT !.sprintId = NoSprintId]
              = calculateSprintPeriods(sprintPeriods[i].developmentStart, devDays, qaDays)

\* the instants of the probe date's calendar day
InstantsOfProbeDay == {DayOf(date) * TicksPerDay + t : t \in 0..(TicksPerDay - 1)}

\* C21: classification depends on calendar days only: every instant of the
\* probe's day gets the same type from getCurrentPeriodType, whatever times of
\* day the probe and the range's dates carry; a probe on the day of
\* developmentStart, or of qaEnd, is inside the window
C21_SameDaySameType ==
  op = "getAllPeriodsForDateOfPeriod" =>
    /\ \A other \in InstantsOfProbeDay :
         getCurrentPeriodType(other, period) = getCurrentPeriodType(date, period)
    /\ isSameDay(date, period.developmentStart) =>
         getCurrentPeriodType(date, period) = "development"
    /\ isSameDay(date, period.qaEnd) =>
         getCurrentPeriodType(date, period) = "qa"

\* a probe at midnight of the day on which a range starts later in the day,
\* classified development
C21_Witness ==
  /\ op = "getAllPeriodsForDateOfPeriod"
  /\ TimeOfDay(period.developmentStart) /= 0
  /\ TimeOfDay(date) = 0
  /\ isSameDay(date, period.developmentStart)
  /\ getTime(date) < getTime(period.developmentStart)
  /\ SingleEntryOfType("development")

\* the parameter is absent or empty, or parseInt finds no number in it
NoNumber(text) == ~Truthy(text) \/ parseInt(text).isNaN

\* the parameter holds a number outside lo..hi
OutOfRange(text, lo, hi) ==
  /\ ~NoNumber(text)
  /\ (parseInt(text).value < lo \/ parseInt(text).value > hi)

\* the parameter holds a number below lo
Below(text, lo) == ~NoNumber(text) /\ parseInt(text).value < lo

\* C22: whatever the query string, the config has developmentDays >= 1,
\* qaDays >= 1, 1 <= displayMonths <= 12 and 0 <= startDayOfWeek <= 6, and a
\* parameter that is absent, holds no number or is out of range is replaced
\* by its default
C22_ConfigInRange ==
  op = "parseUrlParams" =>
    /\ config.developmentDays >= 1
    /\ config.qaDays >= 1
    /\ config.displayMonths >= 1 /\ config.displayMonths <= 12
    /\ config.startDayOfWeek >= 0 /\ config.startDayOfWeek <= 6
    /\ (NoNumber(query.startDay) \/ OutOfRange(query.startDay, 0, 6)) =>
         config.startDayOfWeek = DEFAULT_CONFIG.startDayOfWeek
    /\ (NoNumber(query.dev) \/ Below(query.dev, 1)) =>
         config.developmentDays = DEFAULT_CONFIG.developmentDays
    /\ (NoNumber(query.qa) \/ Below(query.qa, 1)) =>
         config.qaDays = DEFAULT_CONFIG.qaDays
    /\ (NoNumber(query.months) \/ OutOfRange(query.months, 1, 12)) =>
         config.displayMonths = DEFAULT_CONFIG.displayMonths

\* a URL with a negative dev, a qa of 0, 13 months and a start weekday that
\* is no number was parsed, and all four fields have their defaults
C22_Witness ==
  /\ op = "parseUrlParams"
  /\ query.dev = <<"-", "1">>
  /\ query.qa = <<"0">>
  /\ query.months = <<"1", "3">>
  /\ query.startDay = <<"x">>
  /\ config.developmentDays = 7
  /\ config.qaDays = 7
  /\ config.displayMonths = 3
  /\ config.startDayOfWeek = 2

\* the text is YYYY-MM-DD and names a day of the calendar
ValidDateText(text) ==
  /\ Len(text) = 10
  /\ Len(Split(text)) = 3
  /\ \A i \in 1..3 : ~Number(Split(text)[i]).isNaN
  /\ LET y == Number(Split(text)[1]).value
         m == Number(Split(text)[2]).value
         d == Number(Split(text)[3]).value
     IN  /\ m >= 1 /\ m <= 12 /\ d >= 1
         /\ CivilFromDays(DaysFromCivil(y, m, d)) = <<y, m, d>>

\* C27: when the center parameter is present but is no valid YYYY-MM-DD
\* calendar date, the config keeps the default center date, and the config
\* never holds an invalid date
C27_InvalidCenterFallsBack ==
  op = "parseUrlParams" =>
    /\ ~config.centerDate.isNaN
    /\ (Truthy(query.center) /\ ~ValidDateText(query.center)) =>
         config.centerDate = DEFAULT_CONFIG.centerDate

\* months since year 0 of an entry of the calendar
MonthIndex(entry) == entry.year * 12 + entry.month

\* C23: generateCalendarMonths returns displayMonths entries, each the month
\* after the one before it (the year going up by one after December, the
\* month always in 0..11), and the month of the center date is the entry at
\* index floor(displayMonths / 2)
C23_ConsecutiveMonthsAroundCenter ==
  op = "generateCalendarMonths" =>
    /\ Len(calendarMonths) = config.displayMonths
    /\ \A i \in DOMAIN calendarMonths :
         calendarMonths[i].month >= 0 /\ calendarMonths[i].month <= 11
    /\ \A i \in 1..(Len(calendarMonths) - 1) :
         MonthIndex(calendarMonths[i + 1]) = MonthIndex(calendarMonths[i]) + 1
    /\ LET center == calendarMonths[(config.displayMonths \div 2) + 1]
       IN  /\ center.year = getFullYear(config.centerDate.value)
           /\ center.month = getMonth(config.centerDate.value)

\* twelve months around a center date in March: they start in the year
\* before and end in the year of the center date
C23_Witness ==
  /\ op = "generateCalendarMonths"
  /\ config.displayMonths = 12
  /\ getMonth(config.centerDate.value) = 2
  /\ calendarMonths[1].year = 2024 /\ calendarMonths[1].month = 8
  /\ calendarMonths[12].year = 2025 /\ calendarMonths[12].month = 7

\* the real days of the calendar: the entries after the blanks of each month
RealDays ==
  UNION {{calendarMonths[m].days[i] : i \in DOMAIN calendarMonths[m].days} \ {BlankDay} :
           m \in DOMAIN calendarMonths}

\* the types of a list of PeriodInfo, in its order
TypesOf(infos) == [i \in DOMAIN infos |-> infos[i].type]

\* what a day shows: the one type it holds, nothing for none
ShownTypes(day) == IF day.periodType = "none" THEN <<>> ELSE <<day.periodType>>

\* C24: every real day of every month of the calendar carries all sprint
\* periods that claim its date, up to three: what the day shows is what
\* getAllPeriodsForDate gives for its date
C24_DayCarriesAllPeriods ==
  op = "generateCalendarMonths" =>
    \A day \in RealDays :
      ShownTypes(day) = TypesOf(getAllPeriodsForDate(day.date, sprintPeriods))

\* the operations that take a start or base date
DateOps == {"calculateSprintPeriods", "getNextNSprints", "getPreviousNSprints",
            "getNearestDayOfWeek"}

C26_BackwardByForwardOffset ==
  (op = "getNearestDayOfWeek" /\ ~wantFuture /\ getDay(startDate) /= targetDay) =>
    nearest = PlusDays(startDate, -((targetDay - getDay(startDate) + 7) % 7))

\* C26: with future = false and a base date off the target weekday, the
\* result is the base date minus ((currentWeekday - targetWeekday + 7) mod 7)
\* days, that is the base date plus
\* ((targetWeekday - currentWeekday + 7) mod 7) - 7 days
C26_BackwardOffset ==
  (op = "getNearestDayOfWeek" /\ ~wantFuture /\ getDay(startDate) /= targetDay) =>
    /\ nearest = PlusDays(startDate, -((getDay(startDate) - targetDay + 7) % 7))
    /\ nearest = PlusDays(startDate, ((targetDay - getDay(startDate) + 7) % 7) - 7)

\* a backward search for Tuesday from a Wednesday, which gives the day before
C26_Witness ==
  /\ op = "getNearestDayOfWeek"
  /\ ~wantFuture
  /\ getDay(startDate) = 3
  /\ targetDay = 2
  /\ nearest = PlusDays(startDate, -1)

\* the number of days of the month a Date lies in, from the calendar
DaysOfMonthOf(t) ==
  LET y == getFullYear(t)
      m == getMonth(t) + 1
  IN  IF m = 12
        THEN DaysFromCivil(y + 1, 1, 1) - DaysFromCivil(y, 12, 1)
        ELSE DaysFromCivil(y, m + 1, 1) - DaysFromCivil(y, m, 1)

SameMonth(a, b) == getFullYear(a) = getFullYear(b) /\ getMonth(a) = getMonth(b)

\* C29: for every date d, the 29th, 30th and 31st included,
\* getLastDayOfMonth(d) is the last day of d's own month, getDaysInMonth(d)
\* is the number of days of d's own month, and getFirstDayOfMonth(d) is
\* day 1 of the same month
C29_MonthFunctionsStayInMonth ==
  /\ op = "getLastDayOfMonth" =>
       SameMonth(answer, date) /\ getDate(answer) = DaysOfMonthOf(date)
  /\ op = "getDaysInMonth" => answer = DaysOfMonthOf(date)
  /\ op = "getFirstDayOfMonth" => SameMonth(answer, date) /\ getDate(answer) = 1

\* a sprint of the list claims the date
Claimed(d, list) ==
  \E i \in DOMAIN list : getCurrentPeriodType(d, list[i]) /= "none"

\* C28: when the center date is today and the configuration is valid, the
\* sprints initApp computes cover the displayed months: every day from the
\* first day of the first month shown to the last day of the last month
\* shown is claimed by at least one computed sprint
C28_SprintsCoverDisplayedMonths ==
  (op = "initApp" /\ isSameDay(config.centerDate.value, now)) =>
    \A day \in RealDays : Claimed(day.date, sprintPeriods)

====
